---- MODULE Spec2Model ----
(***************************************************************************)
(* Real-time fan-out service of the parking backend                        *)
(* (parking-backend/services/websocketService.js): the connection          *)
(* registry connectedUsers, the subscription tracking roomSubscriptions,   *)
(* the Socket.IO rooms, and the broadcast functions.                       *)
(***************************************************************************)
EXTENDS Integers, Sequences, FiniteSets, TLC

\* ---------------------------------------------------------------- bounds
MaxConns == 2          \* connection attempts (socket ids 1..MaxConns)
MaxOps == 2            \* client messages, broadcast calls and role updates
MaxReqs == 3
TotalSpaces == 2

\* ------------------------------------------------------------ value sets
Users == {"u1", "u2"}                 \* ids present in the users table
Lots == {"L1", "L2"}                       \* parking lot ids
Conns == 1..MaxConns                  \* socket.id values
Roles == {"user", "admin"}

Missing == ""                         \* an absent (falsy) field of a message

\* handshake tokens: none, one jwt.verify rejects, and valid tokens
Tokens == {"", "garbage", "jwt:u1", "jwt:u2", "jwt:u3"}

UserRoom(u) == "user:" \o u           \* `user:${userId}`
LotRoom(l) == "parking_lot:" \o l     \* `parking_lot:${parkingLotId}`
AdminRoom == "admin"
ParkingUpdatesRoom == "parking_updates"

AllRooms == {AdminRoom, ParkingUpdatesRoom}
              \cup {UserRoom(u) : u \in Users} \cup {LotRoom(l) : l \in Lots}

SubscribeTypes == {"parking", "admin", Missing}

Now == "now"                          \* new Date()
ISOString == "iso"                    \* new Date().toISOString()

VARIABLES
  io,                 \* module-level io: TRUE once initializeWebSocket ran
  usersTable,         \* supabase users table: id -> role
  status,             \* per socket: "none" | "authenticated" | "active"
                      \*             | "rejected" | "closed"
  sockUserId,         \* socket.userId
  sockUserRole,       \* socket.userRole
  rooms,              \* Socket.IO adapter rooms: room -> set of socket ids
  connectedUsers,     \* Map userId -> {socketId, connectedAt, role}
  roomSubscriptions,  \* Map room -> Set of userId
  inbox,              \* per socket: events emitted to it, in emission order
  pending,            \* data requests awaiting the store: socket, kind, argument
  nOps,               \* operations performed so far (bounded by MaxOps)
  parking_lots,       \* parking_lots table: id -> total_spaces, available_spaces
  bookings,           \* bookings table: rows in insertion order (id = index)
  system_announcements, \* system_announcements table: rows in insertion order
  requests            \* HTTP requests of the controllers: operation, position,
                      \* locals, response

\* the tables and requests of the HTTP controllers
storeVars == <<parking_lots, bookings, system_announcements, requests>>

\* the state of websocketService.js
wsVars == <<io, usersTable, status, sockUserId, sockUserRole, rooms,
           connectedUsers, roomSubscriptions, inbox, pending, nOps>>

vars == <<io, usersTable, status, sockUserId, sockUserRole, rooms,
          connectedUsers, roomSubscriptions, inbox, pending,
          nOps, parking_lots, bookings, system_announcements, requests>>

\* --------------------------------------------------------------- helpers

\* Map.prototype.set / delete on a function with a dynamic domain
MapSet(m, k, v) == [x \in DOMAIN m \cup {k} |-> IF x = k THEN v ELSE m[x]]
MapDelete(m, k) == [x \in DOMAIN m \ {k} |-> m[x]]

\* { ...a, ...b }: later keys win
ObjectSpread(a, b) ==
  [k \in DOMAIN a \cup DOMAIN b |-> IF k \in DOMAIN b THEN b[k] ELSE a[k]]

\* jwt.verify(token, secret): the decoded id, or a throw
JwtVerify(token) ==
  CASE token = "jwt:u1" -> [ok |-> TRUE, id |-> "u1"]
    [] token = "jwt:u2" -> [ok |-> TRUE, id |-> "u2"]
    [] token = "jwt:u3" -> [ok |-> TRUE, id |-> "u3"]
    [] OTHER -> [ok |-> FALSE, id |-> Missing]

\* an event on the wire: its name and its payload
Event(name, data) == [event |-> name, data |-> data]

\* socket.emit(name, data) on socket c
SocketEmit(box, c, name, data) ==
  [box EXCEPT ![c] = Append(@, Event(name, data))]

\* a variant that queues the event ahead of the events already emitted
RoomEmitPrepend(box, rm, room, name, data) ==
  [c \in Conns |-> IF c \in rm[room] THEN <<Event(name, data)>> \o box[c]
                                     ELSE box[c]]

\* io.to(room).emit(name, data): every socket in the room, once
RoomEmit(box, rm, room, name, data) ==
  [c \in Conns |-> IF c \in rm[room] THEN Append(box[c], Event(name, data))
                                     ELSE box[c]]

\* a variant that queues the event on every socket, connected or not
IoEmitToEverySocket(box, st, name, data) ==
  [c \in Conns |-> Append(box[c], Event(name, data))]

\* io.emit(name, data): every connected socket of the namespace
IoEmit(box, st, name, data) ==
  [c \in Conns |-> IF st[c] = "active" THEN Append(box[c], Event(name, data))
                                       ELSE box[c]]

\* a variant of join that drops a socket already in the room
JoinToggles(rm, c, room) ==
  [rm EXCEPT ![room] = IF c \in @ THEN @ \ {c} ELSE @ \cup {c}]

\* socket.join(room) / socket.leave(room)
Join(rm, c, room) == [rm EXCEPT ![room] = @ \cup {c}]
Leave(rm, c, room) == [rm EXCEPT ![room] = @ \ {c}]
LeaveAll(rm, c) == [r \in DOMAIN rm |-> rm[r] \ {c}]

\* ------------------------------------------------- store and requests
Reqs == 1..MaxReqs
Customers == {"u1"}
\* (start_time, end_time) of the booking requests, all in the future
Slots == {<<1, 3>>, <<2, 4>>}
\* values an admin sends as available_spaces
ManualValues == {0, TotalSpaces - 1, TotalSpaces + 1}

\* a request slot not yet used
IdleRequest ==
  [op |-> "none", pc |-> "idle", user |-> Missing, lot |-> Missing,
   slot |-> <<0, 0>>, id |-> 0, read |-> 0, wsFailed |-> FALSE,
   response |-> 0]

\* the tables before any booking, every lot empty
StoreInit ==
  /\ parking_lots = [l \in Lots |-> [total_spaces |-> TotalSpaces,
                                    available_spaces |-> TotalSpaces]]
  /\ bookings = << >>
  /\ system_announcements = << >>
  /\ requests = [r \in Reqs |-> IdleRequest]

\* ------------------------------------------------------------------ Init
Init ==
  /\ io = FALSE
  /\ usersTable = [u \in Users |-> IF u = "u2" THEN "admin" ELSE "user"]
  /\ status = [c \in Conns |-> "none"]
  /\ sockUserId = [c \in Conns |-> Missing]
  /\ sockUserRole = [c \in Conns |-> Missing]
  /\ rooms = [r \in AllRooms |-> {}]
  /\ connectedUsers = << >>
  /\ roomSubscriptions = << >>
  /\ inbox = [c \in Conns |-> << >>]
  /\ pending = << >>
  /\ nOps = 0
  /\ StoreInit

\* --------------------------------------------------------------- actions

\* initializeWebSocket(server): io = new Server(...)
InitializeWebSocket ==
  /\ UNCHANGED <<pending, storeVars>>
  /\ io = FALSE
  /\ io' = TRUE
  /\ UNCHANGED <<usersTable, status, sockUserId, sockUserRole, rooms,
                 connectedUsers, roomSubscriptions, inbox,
                 nOps>>

\* updateUserRole (adminController.js): the role of a row of the users table
\* is rewritten while sockets may be open
UpdateRole(u, r) ==
  /\ UNCHANGED <<pending, storeVars>>
  /\ nOps < MaxOps
  /\ usersTable[u] # r
  /\ usersTable' = [usersTable EXCEPT ![u] = r]
  /\ nOps' = nOps + 1
  /\ UNCHANGED <<io, status, sockUserId, sockUserRole, rooms,
                 connectedUsers, roomSubscriptions, inbox>>

\* a variant that trusts the token's id without the users-table lookup
AuthenticateSkipsUserLookup(c, token) ==
  /\ UNCHANGED <<pending, storeVars>>
  /\ io
  /\ status[c] = "none"
  /\ \A d \in Conns : d < c => status[d] # "none"
  /\ LET decoded == JwtVerify(token)
     IN IF token = Missing \/ ~decoded.ok
          THEN /\ status' = [status EXCEPT ![c] = "rejected"]
               /\ UNCHANGED <<sockUserId, sockUserRole>>
          ELSE /\ status' = [status EXCEPT ![c] = "authenticated"]
               /\ sockUserId' = [sockUserId EXCEPT ![c] = decoded.id]
               /\ sockUserRole' =
                    [sockUserRole EXCEPT ![c] =
                       IF decoded.id \in DOMAIN usersTable
                         THEN usersTable[decoded.id] ELSE "user"]
  /\ UNCHANGED <<io, usersTable, rooms, connectedUsers, roomSubscriptions,
                 inbox, nOps>>

\* io.use(...): the authentication middleware on the next new socket
Authenticate(c, token) ==
  /\ UNCHANGED <<pending, storeVars>>
  /\ io
  /\ status[c] = "none"
  /\ \A d \in Conns : d < c => status[d] # "none"
  /\ LET decoded == JwtVerify(token)
         found == decoded.ok /\ decoded.id \in DOMAIN usersTable
     IN IF token = Missing \/ ~decoded.ok \/ ~found
          THEN /\ status' = [status EXCEPT ![c] = "rejected"]
               /\ UNCHANGED <<sockUserId, sockUserRole>>
          ELSE /\ status' = [status EXCEPT ![c] = "authenticated"]
               /\ sockUserId' = [sockUserId EXCEPT ![c] = decoded.id]
               /\ sockUserRole' =
                    [sockUserRole EXCEPT ![c] = usersTable[decoded.id]]
  /\ UNCHANGED <<io, usersTable, rooms, connectedUsers, roomSubscriptions,
                 inbox, nOps>>

\* a variant whose admin-room join does not test the role
OnConnectionJoinsAdminAlways(c) ==
  /\ UNCHANGED <<pending, storeVars>>
  /\ status[c] = "authenticated"
  /\ status' = [status EXCEPT ![c] = "active"]
  /\ connectedUsers' =
       MapSet(connectedUsers, sockUserId[c],
              [socketId |-> c, connectedAt |-> Now, role |-> sockUserRole[c]])
  /\ rooms' = Join(Join(rooms, c, UserRoom(sockUserId[c])), c, AdminRoom)
  /\ inbox' = SocketEmit(inbox, c, "connected",
                 [message |-> "Connected to real-time updates",
                  userId |-> sockUserId[c], timestamp |-> ISOString])
  /\ UNCHANGED <<io, usersTable, sockUserId, sockUserRole, roomSubscriptions,
                 nOps>>

\* io.on('connection', socket => ...)
OnConnection(c) ==
  /\ UNCHANGED <<pending, storeVars>>
  /\ status[c] = "authenticated"
  /\ status' = [status EXCEPT ![c] = "active"]
  /\ connectedUsers' =
       MapSet(connectedUsers, sockUserId[c],
              [socketId |-> c, connectedAt |-> Now, role |-> sockUserRole[c]])
  /\ rooms' = LET own == Join(rooms, c, UserRoom(sockUserId[c]))
              IN IF sockUserRole[c] = "admin" THEN Join(own, c, AdminRoom)
                                              ELSE own
  /\ inbox' = SocketEmit(inbox, c, "connected",
                 [message |-> "Connected to real-time updates",
                  userId |-> sockUserId[c], timestamp |-> ISOString])
  /\ UNCHANGED <<io, usersTable, sockUserId, sockUserRole, roomSubscriptions,
                 nOps>>

\* a variant whose admin check reads the subject's current role in the store
HandleRoomSubscriptionReadsStoreRole(c, room, type) ==
  /\ UNCHANGED <<pending, storeVars>>
  /\ status[c] = "active"
  /\ nOps < MaxOps
  /\ nOps' = nOps + 1
  /\ IF room = Missing \/ type = Missing
       THEN /\ inbox' = SocketEmit(inbox, c, "error",
                 [message |-> "Room and type are required for subscription"])
            /\ UNCHANGED <<rooms, roomSubscriptions>>
       ELSE IF type = "admin" /\ usersTable[sockUserId[c]] # "admin"
       THEN /\ inbox' = SocketEmit(inbox, c, "error",
                 [message |-> "Admin privileges required"])
            /\ UNCHANGED <<rooms, roomSubscriptions>>
       ELSE /\ rooms' = Join(rooms, c, room)
            /\ roomSubscriptions' =
                 LET m == IF room \in DOMAIN roomSubscriptions
                            THEN roomSubscriptions
                            ELSE MapSet(roomSubscriptions, room, {})
                 IN [m EXCEPT ![room] = @ \cup {sockUserId[c]}]
            /\ inbox' = SocketEmit(inbox, c, "subscribed",
                 [room |-> room, type |-> type, timestamp |-> ISOString])
  /\ UNCHANGED <<io, usersTable, status, sockUserId, sockUserRole,
                 connectedUsers>>

\* handleRoomSubscription(socket, data), data = {room, type}
HandleRoomSubscription(c, room, type) ==
  /\ UNCHANGED <<pending, storeVars>>
  /\ status[c] = "active"
  /\ nOps < MaxOps
  /\ nOps' = nOps + 1
  /\ IF room = Missing \/ type = Missing
       THEN /\ inbox' = SocketEmit(inbox, c, "error",
                 [message |-> "Room and type are required for subscription"])
            /\ UNCHANGED <<rooms, roomSubscriptions>>
       ELSE IF type = "admin" /\ sockUserRole[c] # "admin"
       THEN /\ inbox' = SocketEmit(inbox, c, "error",
                 [message |-> "Admin privileges required"])
            /\ UNCHANGED <<rooms, roomSubscriptions>>
       ELSE /\ rooms' = Join(rooms, c, room)
            /\ roomSubscriptions' =
                 LET m == IF room \in DOMAIN roomSubscriptions
                            THEN roomSubscriptions
                            ELSE MapSet(roomSubscriptions, room, {})
                 IN [m EXCEPT ![room] = @ \cup {sockUserId[c]}]
            /\ inbox' = SocketEmit(inbox, c, "subscribed",
                 [room |-> room, type |-> type, timestamp |-> ISOString])
  /\ UNCHANGED <<io, usersTable, status, sockUserId, sockUserRole,
                 connectedUsers>>

\* a variant that keeps the tracked set of a room when it becomes empty
HandleRoomUnsubscriptionKeepsEmptySet(c, room) ==
  /\ UNCHANGED <<pending, storeVars>>
  /\ status[c] = "active"
  /\ nOps < MaxOps
  /\ nOps' = nOps + 1
  /\ IF room = Missing
       THEN /\ inbox' = SocketEmit(inbox, c, "error",
                 [message |-> "Room is required for unsubscription"])
            /\ UNCHANGED <<rooms, roomSubscriptions>>
       ELSE /\ rooms' = Leave(rooms, c, room)
            /\ roomSubscriptions' =
                 IF room \in DOMAIN roomSubscriptions
                   THEN [roomSubscriptions EXCEPT
                           ![room] = @ \ {sockUserId[c]}]
                   ELSE roomSubscriptions
            /\ inbox' = SocketEmit(inbox, c, "unsubscribed",
                 [room |-> room, timestamp |-> ISOString])
  /\ UNCHANGED <<io, usersTable, status, sockUserId, sockUserRole,
                 connectedUsers>>

\* handleRoomUnsubscription(socket, data), data = {room}
HandleRoomUnsubscription(c, room) ==
  /\ UNCHANGED <<pending, storeVars>>
  /\ status[c] = "active"
  /\ nOps < MaxOps
  /\ nOps' = nOps + 1
  /\ IF room = Missing
       THEN /\ inbox' = SocketEmit(inbox, c, "error",
                 [message |-> "Room is required for unsubscription"])
            /\ UNCHANGED <<rooms, roomSubscriptions>>
       ELSE /\ rooms' = Leave(rooms, c, room)
            /\ roomSubscriptions' =
                 IF room \in DOMAIN roomSubscriptions
                   THEN LET m == [roomSubscriptions EXCEPT
                                    ![room] = @ \ {sockUserId[c]}]
                        IN IF m[room] = {} THEN MapDelete(m, room) ELSE m
                   ELSE roomSubscriptions
            /\ inbox' = SocketEmit(inbox, c, "unsubscribed",
                 [room |-> room, timestamp |-> ISOString])
  /\ UNCHANGED <<io, usersTable, status, sockUserId, sockUserRole,
                 connectedUsers>>

\* handleRoomSubscription(socket, undefined): `const { room, type } = data`
\* throws a TypeError before any emit, and neither the handler nor its
\* listener catches it
HandleRoomSubscriptionNoData(c) ==
  /\ UNCHANGED storeVars
  /\ status[c] = "active"
  /\ nOps < MaxOps
  /\ nOps' = nOps + 1
  /\ UNCHANGED <<io, usersTable, status, sockUserId, sockUserRole, rooms,
                 connectedUsers, roomSubscriptions, inbox, pending>>

\* handleRoomUnsubscription(socket, undefined): `const { room } = data`
\* throws in the same way
HandleRoomUnsubscriptionNoData(c) ==
  /\ UNCHANGED storeVars
  /\ status[c] = "active"
  /\ nOps < MaxOps
  /\ nOps' = nOps + 1
  /\ UNCHANGED <<io, usersTable, status, sockUserId, sockUserRole, rooms,
                 connectedUsers, roomSubscriptions, inbox, pending>>

\* a variant of the clean-up loop that deletes nothing from the sets
CleanUpSubscriptionsWrongKey(subs, userId) ==
  [r \in {x \in DOMAIN subs : subs[x] # {}} |-> subs[r]]

\* the clean-up loop of the disconnect handler over roomSubscriptions
CleanUpSubscriptions(subs, userId) ==
  LET m == [r \in DOMAIN subs |-> subs[r] \ {userId}]
  IN [r \in {x \in DOMAIN m : m[x] # {}} |-> m[r]]

\* the socket closes: Socket.IO leaves all its rooms, then
\* socket.on('disconnect', ...) runs
OnDisconnect(c) ==
  /\ UNCHANGED <<pending, storeVars>>
  /\ status[c] = "active"
  /\ status' = [status EXCEPT ![c] = "closed"]
  /\ rooms' = LeaveAll(rooms, c)
  /\ connectedUsers' = MapDelete(connectedUsers, sockUserId[c])
  /\ roomSubscriptions' = CleanUpSubscriptions(roomSubscriptions, sockUserId[c])
  /\ UNCHANGED <<io, usersTable, sockUserId, sockUserRole, inbox,
                 nOps>>

\* ------------------------------------------------- broadcast functions
\* payloads the controllers pass (notificationController.js, paymentController.js,
\* userProfileController.js)
ParkingUpdateData ==
  {[available_spaces |-> 17, action |-> "booking_created"],
   [available_spaces |-> 0, action |-> "booking_cancelled"]}
BookingUpdateData ==
  {[status |-> "created", action |-> "booking_created",
    booking |-> [id |-> "b1"]]}
PaymentUpdateData ==
  {[status |-> "succeeded", action |-> "payment_confirmed",
    payment |-> [id |-> "p1"], booking |-> [id |-> "b1"]]}
Notifications ==
  {[type |-> "profile_updated", title |-> "Profile Updated",
    message |-> "Your profile has been successfully updated",
    data |-> [profile_updated |-> TRUE]]}
Announcements == {[message |-> "maintenance", type |-> "info"]}
BookingIds == {"b1"}
PaymentIds == {"p1"}

\* the common frame of a broadcast call: only inbox and nOps may change
BroadcastFrame ==
  /\ UNCHANGED <<pending, storeVars>>
  /\ nOps < MaxOps
  /\ nOps' = nOps + 1
  /\ UNCHANGED <<io, usersTable, status, sockUserId, sockUserRole, rooms,
                 connectedUsers, roomSubscriptions>>

\* a variant that emits to the general room only
BroadcastParkingUpdateGeneralOnly(parkingLotId, updateData) ==
  /\ BroadcastFrame
  /\ IF ~io THEN UNCHANGED inbox
     ELSE inbox' = RoomEmit(inbox, rooms, ParkingUpdatesRoom, "parking_updated",
                     ObjectSpread(
                       ObjectSpread([parking_lot_id |-> parkingLotId], updateData),
                       [timestamp |-> ISOString]))

\* broadcastParkingUpdate(parkingLotId, updateData)
BroadcastParkingUpdate(parkingLotId, updateData) ==
  /\ BroadcastFrame
  /\ IF ~io THEN UNCHANGED inbox
     ELSE LET payload == ObjectSpread(
                ObjectSpread([parking_lot_id |-> parkingLotId], updateData),
                [timestamp |-> ISOString])
              first == RoomEmit(inbox, rooms, LotRoom(parkingLotId),
                                "parking_updated", payload)
          IN inbox' = RoomEmit(first, rooms, ParkingUpdatesRoom,
                               "parking_updated", payload)

\* a variant that leaves out the emit to the admin room
BroadcastBookingUpdateSubjectOnly(userId, bookingId, updateData) ==
  /\ BroadcastFrame
  /\ IF ~io THEN UNCHANGED inbox
     ELSE inbox' = RoomEmit(inbox, rooms, UserRoom(userId), "booking_updated",
                     ObjectSpread(
                       ObjectSpread([booking_id |-> bookingId], updateData),
                       [timestamp |-> ISOString]))

\* broadcastBookingUpdate(userId, bookingId, updateData)
BroadcastBookingUpdate(userId, bookingId, updateData) ==
  /\ BroadcastFrame
  /\ IF ~io THEN UNCHANGED inbox
     ELSE LET toUser == ObjectSpread(
                ObjectSpread([booking_id |-> bookingId], updateData),
                [timestamp |-> ISOString])
              toAdmin == ObjectSpread(
                ObjectSpread([booking_id |-> bookingId, user_id |-> userId],
                             updateData),
                [timestamp |-> ISOString])
              first == RoomEmit(inbox, rooms, UserRoom(userId),
                                "booking_updated", toUser)
          IN inbox' = RoomEmit(first, rooms, AdminRoom,
                               "booking_updated", toAdmin)

\* a variant that copies the event to the admin room, as the booking
\* broadcast does
BroadcastPaymentUpdateAlsoAdmin(userId, paymentId, updateData) ==
  /\ BroadcastFrame
  /\ IF ~io THEN UNCHANGED inbox
     ELSE LET payload == ObjectSpread(
                ObjectSpread([payment_id |-> paymentId], updateData),
                [timestamp |-> ISOString])
              first == RoomEmit(inbox, rooms, UserRoom(userId),
                                "payment_updated", payload)
          IN inbox' = RoomEmit(first, rooms, AdminRoom,
                               "payment_updated", payload)

\* broadcastPaymentUpdate(userId, paymentId, updateData)
BroadcastPaymentUpdate(userId, paymentId, updateData) ==
  /\ BroadcastFrame
  /\ IF ~io THEN UNCHANGED inbox
     ELSE inbox' = RoomEmit(inbox, rooms, UserRoom(userId), "payment_updated",
                     ObjectSpread(
                       ObjectSpread([payment_id |-> paymentId], updateData),
                       [timestamp |-> ISOString]))

\* broadcastNotification(userId, notification)
BroadcastNotification(userId, notification) ==
  /\ BroadcastFrame
  /\ IF ~io THEN UNCHANGED inbox
     ELSE inbox' = RoomEmit(inbox, rooms, UserRoom(userId), "notification",
                     ObjectSpread(notification, [timestamp |-> ISOString]))

\* a variant that emits to the admin room instead of the whole namespace
BroadcastSystemAnnouncementAdminOnly(message, type) ==
  /\ BroadcastFrame
  /\ IF ~io THEN UNCHANGED inbox
     ELSE inbox' = RoomEmit(inbox, rooms, AdminRoom, "system_announcement",
                     [message |-> message, type |-> type,
                      timestamp |-> ISOString])

\* broadcastSystemAnnouncement(message, type = 'info')
BroadcastSystemAnnouncement(message, type) ==
  /\ BroadcastFrame
  /\ IF ~io THEN UNCHANGED inbox
     ELSE inbox' = IoEmit(inbox, status, "system_announcement",
                     [message |-> message, type |-> type,
                      timestamp |-> ISOString])

\* getConnectedUsersInfo()
GetConnectedUsersInfo ==
  LET users == {[user_id |-> u, connected_at |-> connectedUsers[u].connectedAt,
                 role |-> connectedUsers[u].role] : u \in DOMAIN connectedUsers}
  IN [total_connected |-> Cardinality(users),
      users |-> users,
      admins_online |-> Cardinality({x \in users : x.role = "admin"})]

\* ------------------------------------------------------- data requests
NoData == "undefined"                 \* a message sent without a data object
StoreResults == {"data", "error"}     \* { data, error } of a supabase query
BookingOwner == [b \in BookingIds |-> "u1"]      \* bookings.user_id
\* what the aggregate queries of getLiveStatistics read
StoreAggregates ==
  [active_bookings |-> Cardinality(BookingIds), today_revenue |-> 0,
   available_spaces |-> 17]

Request(c, kind, arg) == [socket |-> c, kind |-> kind, arg |-> arg]
RemoveAt(seq, i) == SubSeq(seq, 1, i - 1) \o SubSeq(seq, i + 1, Len(seq))

\* socket.emit from a handler that resumes after an await: a socket that
\* closed meanwhile drops the packet
ReplyEmit(box, st, c, name, data) ==
  IF st[c] = "active" THEN SocketEmit(box, c, name, data) ELSE box

\* the frame of a client data request: only pending, inbox and nOps may change
RequestFrame(c) ==
  /\ UNCHANGED storeVars
  /\ status[c] = "active"
  /\ nOps < MaxOps
  /\ nOps' = nOps + 1
  /\ UNCHANGED <<io, usersTable, status, sockUserId, sockUserRole, rooms,
                 connectedUsers, roomSubscriptions>>

\* the frame of a handler that resumes when the store answers request i
ReturnFrame(i, kind) ==
  /\ UNCHANGED storeVars
  /\ i \in 1..Len(pending)
  /\ pending[i].kind = kind
  /\ pending' = RemoveAt(pending, i)
  /\ UNCHANGED <<io, usersTable, status, sockUserId, sockUserRole, rooms,
                 connectedUsers, roomSubscriptions, nOps>>

\* socket.on('get_parking_availability'): handleParkingAvailabilityRequest
\* up to its await
GetParkingAvailability(c, parking_lot_id) ==
  /\ RequestFrame(c)
  /\ IF parking_lot_id = NoData
       THEN /\ inbox' = SocketEmit(inbox, c, "error",
                          [message |-> "Internal server error"])
            /\ UNCHANGED pending
       ELSE /\ pending' = Append(pending,
                 Request(c, "get_parking_availability", parking_lot_id))
            /\ UNCHANGED inbox

\* a variant that replies through the requester's subject room
ParkingAvailabilityReturnsToUserRoom(i, result) ==
  /\ ReturnFrame(i, "get_parking_availability")
  /\ LET c == pending[i].socket
         id == pending[i].arg
         parkingLots == IF id = Missing THEN Lots ELSE {l \in Lots : l = id}
     IN inbox' =
          IF result = "error"
            THEN RoomEmit(inbox, rooms, UserRoom(sockUserId[c]), "error",
                   [message |-> "Failed to fetch parking availability"])
            ELSE RoomEmit(inbox, rooms, UserRoom(sockUserId[c]),
                   "parking_availability",
                   [parking_lots |-> parkingLots, timestamp |-> ISOString])

\* handleParkingAvailabilityRequest after its await
ParkingAvailabilityReturns(i, result) ==
  /\ ReturnFrame(i, "get_parking_availability")
  /\ LET c == pending[i].socket
         id == pending[i].arg
         parkingLots == IF id = Missing THEN Lots ELSE {l \in Lots : l = id}
     IN inbox' =
          IF result = "error"
            THEN ReplyEmit(inbox, status, c, "error",
                   [message |-> "Failed to fetch parking availability"])
            ELSE ReplyEmit(inbox, status, c, "parking_availability",
                   [parking_lots |-> parkingLots, timestamp |-> ISOString])

\* socket.on('get_booking_status'): handleBookingStatusRequest up to its await
GetBookingStatus(c, booking_id) ==
  /\ RequestFrame(c)
  /\ IF booking_id = NoData
       THEN /\ inbox' = SocketEmit(inbox, c, "error",
                          [message |-> "Internal server error"])
            /\ UNCHANGED pending
       ELSE /\ pending' = Append(pending,
                 Request(c, "get_booking_status", booking_id))
            /\ UNCHANGED inbox

\* handleBookingStatusRequest after its await
BookingStatusReturns(i, result) ==
  /\ ReturnFrame(i, "get_booking_status")
  /\ LET c == pending[i].socket
         id == pending[i].arg
         found == /\ result = "data"
                  /\ id \in DOMAIN BookingOwner
                  /\ BookingOwner[id] = sockUserId[c]
     IN inbox' =
          IF ~found
            THEN ReplyEmit(inbox, status, c, "error",
                   [message |-> "Booking not found"])
            ELSE ReplyEmit(inbox, status, c, "booking_status",
                   [booking |-> [id |-> id, user_id |-> sockUserId[c]],
                    timestamp |-> ISOString])

\* a variant without the role test
GetLiveStatsForAnyRole(c) ==
  /\ RequestFrame(c)
  /\ pending' = Append(pending, Request(c, "get_live_stats", Missing))
  /\ UNCHANGED inbox

\* socket.on('get_live_stats'): the role test and handleLiveStatsRequest up
\* to its await
GetLiveStats(c) ==
  /\ RequestFrame(c)
  /\ IF sockUserRole[c] = "admin"
       THEN pending' = Append(pending, Request(c, "get_live_stats", Missing))
       ELSE UNCHANGED pending
  /\ UNCHANGED inbox

\* getLiveStatistics(): the store aggregates (0 where a query fails) and
\* the registry counts read when the queries have returned
GetLiveStatistics(result) ==
  LET agg == IF result = "data" THEN StoreAggregates
             ELSE [k \in DOMAIN StoreAggregates |-> 0]
  IN ObjectSpread(agg,
       [online_users |-> Cardinality(DOMAIN connectedUsers),
        connected_admins |->
          Cardinality({u \in DOMAIN connectedUsers :
                         connectedUsers[u].role = "admin"})])

\* handleLiveStatsRequest after its await
LiveStatsReturns(i, result) ==
  /\ ReturnFrame(i, "get_live_stats")
  /\ inbox' = ReplyEmit(inbox, status, pending[i].socket, "live_stats",
                [stats |-> GetLiveStatistics(result),
                 timestamp |-> ISOString])

\* ------------------------------------------------------ HTTP controllers
\* Each handler is cut at the awaits on which it reads or writes a table; a
\* request arrives together with its first query. No client is connected in
\* these behaviours, so a broadcast that does not throw reaches nobody.

\* the common frame of a controller step
ControllerFrame == UNCHANGED wsVars

\* request slot r is free, and the slots are taken in order
Arrives(r) ==
  /\ requests[r].pc = "idle"
  /\ \A q \in Reqs : q < r => requests[q].pc # "idle"

\* res.status(code).json(...): the handler of request r is over
Respond(req, code) == [req EXCEPT !.pc = "done", !.response = code]

\* the CHECK constraints of parking_lots (create_parking_lots_table.sql):
\* available_spaces >= 0 and available_spaces <= total_spaces
ChecksPass(table, lot, n) == n >= 0 /\ n <= table[lot].total_spaces

\* a variant of the update on a table without the CHECK constraints
SetAvailableUnchecked(table, lot, n) ==
  [table EXCEPT ![lot] = [@ EXCEPT !.available_spaces = n]]

\* update({ available_spaces: n }) on the row of the lot: a value the
\* constraints reject leaves the row as it is (the query returns an error)
SetAvailable(table, lot, n) ==
  IF ChecksPass(table, lot, n)
    THEN [table EXCEPT ![lot] = [@ EXCEPT !.available_spaces = n]]
    ELSE table

\* checkBookingConflict(parkingLotId, startTime, endTime): an active booking
\* of the lot with start_time <= endTime or end_time >= startTime
CheckBookingConflict(parkingLotId, startTime, endTime) ==
  \E i \in 1..Len(bookings) :
    /\ bookings[i].parking_lot_id = parkingLotId
    /\ bookings[i].status = "active"
    /\ \/ bookings[i].start_time <= endTime
       \/ bookings[i].end_time >= startTime

\* createBooking: validation and the read of the parking lot row
CreateBooking(r, user, lot, slot) ==
  /\ ControllerFrame
  /\ Arrives(r)
  /\ LET req == [IdleRequest EXCEPT !.op = "createBooking", !.user = user,
                                    !.lot = lot, !.slot = slot]
     IN requests' =
          [requests EXCEPT ![r] =
             IF slot[2] <= slot[1] THEN Respond(req, 400)
             ELSE IF parking_lots[lot].available_spaces <= 0
               THEN Respond(req, 400)
               ELSE [req EXCEPT !.pc = "check",
                                !.read = parking_lots[lot].available_spaces]]
  /\ UNCHANGED <<parking_lots, bookings, system_announcements>>

\* createBooking: the conflict check
CreateBookingChecksConflict(r) ==
  /\ ControllerFrame
  /\ requests[r].op = "createBooking" /\ requests[r].pc = "check"
  /\ requests' =
       [requests EXCEPT ![r] =
          IF CheckBookingConflict(@.lot, @.slot[1], @.slot[2])
            THEN Respond(@, 409)
            ELSE [@ EXCEPT !.pc = "insert"]]
  /\ UNCHANGED <<parking_lots, bookings, system_announcements>>

\* createBooking: the insert into bookings (status defaults to active)
CreateBookingInserts(r) ==
  /\ ControllerFrame
  /\ requests[r].op = "createBooking" /\ requests[r].pc = "insert"
  /\ bookings' = Append(bookings,
       [user_id |-> requests[r].user, parking_lot_id |-> requests[r].lot,
        start_time |-> requests[r].slot[1], end_time |-> requests[r].slot[2],
        status |-> "active", payment_status |-> "unpaid",
        payment |-> "none"])
  /\ requests' = [requests EXCEPT ![r] =
                    [@ EXCEPT !.pc = "update", !.id = Len(bookings) + 1]]
  /\ UNCHANGED <<parking_lots, system_announcements>>

\* createBooking: available_spaces is written from the row read at the
\* start; the broadcasts sit in their own try/catch; 201
CreateBookingUpdatesSpaces(r, wsFails) ==
  /\ ControllerFrame
  /\ requests[r].op = "createBooking" /\ requests[r].pc = "update"
  /\ parking_lots' = SetAvailable(parking_lots, requests[r].lot,
                                  requests[r].read - 1)
  /\ requests' = [requests EXCEPT ![r] =
                    Respond([@ EXCEPT !.wsFailed = wsFails], 201)]
  /\ UNCHANGED <<bookings, system_announcements>>

\* cancelBooking: the read of the booking row and its checks
CancelBooking(r, user, id) ==
  /\ ControllerFrame
  /\ Arrives(r)
  /\ LET req == [IdleRequest EXCEPT !.op = "cancelBooking", !.user = user,
                                    !.id = id]
         found == id \in 1..Len(bookings) /\ bookings[id].user_id = user
     IN requests' =
          [requests EXCEPT ![r] =
             IF ~found THEN Respond(req, 404)
             ELSE IF bookings[id].status # "active" THEN Respond(req, 400)
             ELSE [req EXCEPT !.pc = "cancel",
                              !.lot = bookings[id].parking_lot_id]]
  /\ UNCHANGED <<parking_lots, bookings, system_announcements>>

\* cancelBooking: update({status: 'cancelled'}) on the row, whatever its
\* status is by now
CancelBookingUpdates(r) ==
  /\ ControllerFrame
  /\ requests[r].op = "cancelBooking" /\ requests[r].pc = "cancel"
  /\ bookings' = [bookings EXCEPT ![requests[r].id] =
                    [@ EXCEPT !.status = "cancelled"]]
  /\ requests' = [requests EXCEPT ![r] = [@ EXCEPT !.pc = "readlot"]]
  /\ UNCHANGED <<parking_lots, system_announcements>>

\* cancelBooking: select available_spaces of the lot
CancelBookingReadsLot(r) ==
  /\ ControllerFrame
  /\ requests[r].op = "cancelBooking" /\ requests[r].pc = "readlot"
  /\ requests' = [requests EXCEPT ![r] =
                    [@ EXCEPT !.pc = "write",
                              !.read =
                                parking_lots[requests[r].lot].available_spaces]]
  /\ UNCHANGED <<parking_lots, bookings, system_announcements>>

\* cancelBooking: available_spaces + 1 is written; the broadcasts sit in
\* their own try/catch; 200
CancelBookingRestoresSpace(r, wsFails) ==
  /\ ControllerFrame
  /\ requests[r].op = "cancelBooking" /\ requests[r].pc = "write"
  /\ parking_lots' = SetAvailable(parking_lots, requests[r].lot,
                                  requests[r].read + 1)
  /\ requests' = [requests EXCEPT ![r] =
                    Respond([@ EXCEPT !.wsFailed = wsFails], 200)]
  /\ UNCHANGED <<bookings, system_announcements>>

\* the status Stripe gives a new payment intent
IntentStatuses == {"succeeded", "requires_payment_method"}

\* createPaymentIntent: the booking must be the caller's, unpaid and active,
\* with no succeeded payment; the payment row takes the intent's status and,
\* if it succeeded at once, the booking becomes paid; the broadcasts sit in
\* their own try/catch
CreatePaymentIntent(r, user, id, intentStatus, wsFails) ==
  /\ ControllerFrame
  /\ Arrives(r)
  /\ LET req == [IdleRequest EXCEPT !.op = "createPaymentIntent",
                                    !.user = user, !.id = id]
         found == id \in 1..Len(bookings) /\ bookings[id].user_id = user
     IN IF ~found
          THEN /\ requests' = [requests EXCEPT ![r] = Respond(req, 404)]
               /\ UNCHANGED bookings
        ELSE IF \/ bookings[id].payment_status = "paid"
                \/ bookings[id].status # "active"
                \/ bookings[id].payment = "succeeded"
          THEN /\ requests' = [requests EXCEPT ![r] = Respond(req, 400)]
               /\ UNCHANGED bookings
        ELSE /\ bookings' =
                  [bookings EXCEPT ![id] =
                     IF intentStatus = "succeeded"
                       THEN [@ EXCEPT !.payment = "succeeded",
                                      !.payment_status = "paid"]
                       ELSE [@ EXCEPT !.payment = intentStatus]]
             /\ requests' =
                  [requests EXCEPT ![r] =
                     Respond([req EXCEPT !.wsFailed =
                                wsFails /\ intentStatus = "succeeded"], 200)]
  /\ UNCHANGED <<parking_lots, system_announcements>>

\* processRefund: the read of the payment row; only a succeeded payment of
\* the caller is refunded (the state of the booking is not looked at)
ProcessRefund(r, user, id) ==
  /\ ControllerFrame
  /\ Arrives(r)
  /\ LET req == [IdleRequest EXCEPT !.op = "processRefund", !.user = user,
                                    !.id = id]
         found == /\ id \in 1..Len(bookings)
                  /\ bookings[id].user_id = user
                  /\ bookings[id].payment # "none"
     IN requests' =
          [requests EXCEPT ![r] =
             IF ~found THEN Respond(req, 404)
             ELSE IF bookings[id].payment # "succeeded" THEN Respond(req, 400)
             ELSE [req EXCEPT !.pc = "refund",
                              !.lot = bookings[id].parking_lot_id]]
  /\ UNCHANGED <<parking_lots, bookings, system_announcements>>

\* processRefund: the payment becomes refunded and the booking cancelled
ProcessRefundUpdates(r) ==
  /\ ControllerFrame
  /\ requests[r].op = "processRefund" /\ requests[r].pc = "refund"
  /\ bookings' = [bookings EXCEPT ![requests[r].id] =
                    [@ EXCEPT !.payment = "refunded", !.status = "cancelled",
                              !.payment_status = "refunded"]]
  /\ requests' = [requests EXCEPT ![r] = [@ EXCEPT !.pc = "readlot"]]
  /\ UNCHANGED <<parking_lots, system_announcements>>

\* processRefund: select available_spaces of the lot
ProcessRefundReadsLot(r) ==
  /\ ControllerFrame
  /\ requests[r].op = "processRefund" /\ requests[r].pc = "readlot"
  /\ requests' = [requests EXCEPT ![r] =
                    [@ EXCEPT !.pc = "write",
                              !.read =
                                parking_lots[requests[r].lot].available_spaces]]
  /\ UNCHANGED <<parking_lots, bookings, system_announcements>>

\* processRefund: available_spaces + 1 is written; 200
ProcessRefundRestoresSpace(r) ==
  /\ ControllerFrame
  /\ requests[r].op = "processRefund" /\ requests[r].pc = "write"
  /\ parking_lots' = SetAvailable(parking_lots, requests[r].lot,
                                  requests[r].read + 1)
  /\ requests' = [requests EXCEPT ![r] = Respond(@, 200)]
  /\ UNCHANGED <<bookings, system_announcements>>

\* updateParkingLotAvailability (realtime controller): the value is checked
\* against 0 and total_spaces and written; the broadcast is not in a
\* try/catch of its own, so a throw reaches the handler's catch: 500
UpdateParkingLotAvailability(r, lot, available_spaces, wsFails) ==
  /\ ControllerFrame
  /\ Arrives(r)
  /\ LET req == [IdleRequest EXCEPT !.op = "updateParkingLotAvailability",
                                    !.lot = lot, !.read = available_spaces]
         invalid == \/ available_spaces < 0
                    \/ available_spaces > parking_lots[lot].total_spaces
     IN IF invalid
          THEN /\ requests' = [requests EXCEPT ![r] = Respond(req, 400)]
               /\ UNCHANGED parking_lots
          ELSE /\ parking_lots' = SetAvailable(parking_lots, lot,
                                               available_spaces)
               /\ requests' =
                    [requests EXCEPT ![r] =
                       Respond([req EXCEPT !.wsFailed = wsFails],
                               IF wsFails THEN 500 ELSE 200)]
  /\ UNCHANGED <<bookings, system_announcements>>

\* PATCH /parking-lots/:id/spaces (server file): the value is written as
\* sent; an update the store rejects is answered 500
PatchParkingLotSpaces(r, lot, available_spaces) ==
  /\ ControllerFrame
  /\ Arrives(r)
  /\ parking_lots' = SetAvailable(parking_lots, lot, available_spaces)
  /\ requests' =
       [requests EXCEPT ![r] =
          Respond([IdleRequest EXCEPT !.op = "patchParkingLotSpaces",
                                      !.lot = lot, !.read = available_spaces],
                  IF ChecksPass(parking_lots, lot, available_spaces)
                    THEN 200 ELSE 500)]
  /\ UNCHANGED <<bookings, system_announcements>>

\* sendSystemAnnouncement (realtime controller): the broadcast comes first
\* and is not in a try/catch of its own; a throw skips the insert: 500
SendSystemAnnouncement(r, a, wsFails) ==
  /\ ControllerFrame
  /\ Arrives(r)
  /\ system_announcements' =
       IF wsFails THEN system_announcements
       ELSE Append(system_announcements, a)
  /\ requests' =
       [requests EXCEPT ![r] =
          Respond([IdleRequest EXCEPT !.op = "sendSystemAnnouncement",
                                      !.wsFailed = wsFails],
                  IF wsFails THEN 500 ELSE 200)]
  /\ UNCHANGED <<parking_lots, bookings>>

\* the server after initializeWebSocket, with no client and an empty store
ControllerInit ==
  /\ io = TRUE
  /\ usersTable = [u \in Users |-> IF u = "u2" THEN "admin" ELSE "user"]
  /\ status = [c \in Conns |-> "none"]
  /\ sockUserId = [c \in Conns |-> Missing]
  /\ sockUserRole = [c \in Conns |-> Missing]
  /\ rooms = [r \in AllRooms |-> {}]
  /\ connectedUsers = << >>
  /\ roomSubscriptions = << >>
  /\ inbox = [c \in Conns |-> << >>]
  /\ pending = << >>
  /\ nOps = 0
  /\ StoreInit

ControllerNext ==
  \/ \E r \in Reqs, u \in Customers, s \in Slots : CreateBooking(r, u, "L1", s)
  \/ \E r \in Reqs : CreateBookingChecksConflict(r)
  \/ \E r \in Reqs : CreateBookingInserts(r)
  \/ \E r \in Reqs, f \in BOOLEAN : CreateBookingUpdatesSpaces(r, f)
  \/ \E r \in Reqs, u \in Customers, id \in 1..MaxReqs : CancelBooking(r, u, id)
  \/ \E r \in Reqs : CancelBookingUpdates(r)
  \/ \E r \in Reqs : CancelBookingReadsLot(r)
  \/ \E r \in Reqs, f \in BOOLEAN : CancelBookingRestoresSpace(r, f)
  \/ \E r \in Reqs, u \in Customers, id \in 1..MaxReqs,
        st \in IntentStatuses, f \in BOOLEAN :
       CreatePaymentIntent(r, u, id, st, f)
  \/ \E r \in Reqs, u \in Customers, id \in 1..MaxReqs : ProcessRefund(r, u, id)
  \/ \E r \in Reqs : ProcessRefundUpdates(r)
  \/ \E r \in Reqs : ProcessRefundReadsLot(r)
  \/ \E r \in Reqs : ProcessRefundRestoresSpace(r)
  \/ \E r \in Reqs, v \in ManualValues, f \in BOOLEAN :
       UpdateParkingLotAvailability(r, "L1", v, f)
  \/ \E r \in Reqs, v \in ManualValues : PatchParkingLotSpaces(r, "L1", v)
  \/ \E r \in Reqs, a \in Announcements, f \in BOOLEAN :
       SendSystemAnnouncement(r, a, f)

ControllerSpec == ControllerInit /\ [][ControllerNext]_vars

Next ==
  \/ InitializeWebSocket
  \/ \E u \in Users, r \in Roles : UpdateRole(u, r)
  \/ \E c \in Conns, t \in Tokens : Authenticate(c, t)
  \/ \E c \in Conns : OnConnection(c)
  \/ \E c \in Conns, room \in AllRooms \cup {Missing}, type \in SubscribeTypes :
       HandleRoomSubscription(c, room, type)
  \/ \E c \in Conns, room \in AllRooms \cup {Missing} :
       HandleRoomUnsubscription(c, room)
  \/ \E c \in Conns : HandleRoomSubscriptionNoData(c)
  \/ \E c \in Conns : HandleRoomUnsubscriptionNoData(c)
  \/ \E c \in Conns : OnDisconnect(c)
  \/ \E l \in Lots, d \in ParkingUpdateData : BroadcastParkingUpdate(l, d)
  \/ \E u \in Users, b \in BookingIds, d \in BookingUpdateData :
       BroadcastBookingUpdate(u, b, d)
  \/ \E u \in Users, p \in PaymentIds, d \in PaymentUpdateData :
       BroadcastPaymentUpdate(u, p, d)
  \/ \E u \in Users, n \in Notifications : BroadcastNotification(u, n)
  \/ \E a \in Announcements : BroadcastSystemAnnouncement(a.message, a.type)
  \/ \E c \in Conns, l \in Lots \cup {Missing, NoData} :
       GetParkingAvailability(c, l)
  \/ \E c \in Conns, b \in BookingIds \cup {NoData} : GetBookingStatus(c, b)
  \/ \E c \in Conns : GetLiveStats(c)
  \/ \E i \in 1..MaxOps, r \in StoreResults : ParkingAvailabilityReturns(i, r)
  \/ \E i \in 1..MaxOps, r \in StoreResults : BookingStatusReturns(i, r)
  \/ \E i \in 1..MaxOps, r \in StoreResults : LiveStatsReturns(i, r)

Spec == Init /\ [][Next]_vars

\* the store answers every query: a pending data request is resumed
StoreReturns ==
  \/ \E i \in 1..MaxOps, r \in StoreResults : ParkingAvailabilityReturns(i, r)
  \/ \E i \in 1..MaxOps, r \in StoreResults : BookingStatusReturns(i, r)
  \/ \E i \in 1..MaxOps, r \in StoreResults : LiveStatsReturns(i, r)

LiveSpec == Spec /\ WF_vars(StoreReturns)

\* ============================================================== properties

Active(c) == status[c] = "active"
Disconnects(c) == status[c] = "active" /\ status'[c] = "closed"
Admitted(c) == status[c] = "authenticated" /\ status'[c] = "active"

IsPrefix(s, t) == Len(s) <= Len(t) /\ SubSeq(t, 1, Len(s)) = s
\* the events a step adds at the tail of socket c's stream
NewEvents(c) == SubSeq(inbox'[c], Len(inbox[c]) + 1, Len(inbox'[c]))
Named(seq, name) == {i \in 1..Len(seq) : seq[i].event = name}
RoomsOf(rm, c) == {r \in DOMAIN rm : c \in rm[r]}

\* C1: no connection whose role is not admin is ever a member of the admin
\* room (so none receives an event emitted to the admin room).
C1_OnlyAdminsInAdminRoom ==
  \A c \in rooms[AdminRoom] : sockUserRole[c] = "admin"

\* C2: every member of a subject room user:<S> is a connection authenticated
\* as subject S.
C2_SubjectRoomHoldsOnlyItsSubject ==
  \A u \in Users : \A c \in rooms[UserRoom(u)] : sockUserId[c] = u

\* C3: immediately after the connection handler has run, the connection is a
\* member of its own subject room, and a member of the admin room if and only
\* if the role resolved for it at connect time is admin.
C3_AdmissionJoinsDefaultRooms ==
  [][\A c \in Conns :
       Admitted(c) =>
         /\ c \in rooms'[UserRoom(sockUserId[c])]
         /\ (c \in rooms'[AdminRoom] <=> sockUserRole[c] = "admin")]_vars

C3_Witness ==
  \E c, d \in Conns :
    /\ Active(c) /\ sockUserRole[c] = "admin" /\ c \in rooms[AdminRoom]
    /\ c \in rooms[UserRoom(sockUserId[c])]
    /\ Active(d) /\ sockUserRole[d] = "user" /\ d \notin rooms[AdminRoom]
    /\ d \in rooms[UserRoom(sockUserId[d])]
    /\ nOps = 0

\* C4: from admission until disconnect, whatever the client sends, a
\* connection stays a member of its own subject room and, when its role is
\* admin, of the admin room.
C4_DefaultRoomsKeptForLife ==
  \A c \in Conns :
    Active(c) =>
      /\ c \in rooms[UserRoom(sockUserId[c])]
      /\ (sockUserRole[c] = "admin" => c \in rooms[AdminRoom])

\* C5: after a connection disconnects no room holds it, the disconnect leaves
\* its subject in no tracked subscription set, and no later step delivers an
\* event to it or puts it back into a room.
C5_DisconnectLeavesNoReference ==
  [][\A c \in Conns :
       /\ Disconnects(c) =>
            /\ \A r \in DOMAIN rooms' : c \notin rooms'[r]
            /\ \A r \in DOMAIN roomSubscriptions' :
                 sockUserId[c] \notin roomSubscriptions'[r]
       /\ status[c] = "closed" =>
            /\ inbox'[c] = inbox[c]
            /\ \A r \in DOMAIN rooms' : c \notin rooms'[r]]_vars

C5_Witness ==
  \E c, d \in Conns :
    /\ status[c] = "closed"
    /\ Named(inbox[c], "subscribed") # {}
    /\ Named(inbox[c], "system_announcement") = {}
    /\ Active(d)
    /\ Named(inbox[d], "system_announcement") # {}
    /\ \A r \in DOMAIN roomSubscriptions :
         sockUserId[c] \notin roomSubscriptions[r]

\* C6: the disconnect of a connection leaves every other live connection's
\* registry entry, room memberships and tracked subscriptions unchanged, also
\* when the other connection belongs to the same subject.
C6_DisconnectTouchesNoOtherConnection ==
  [][\A c, d \in Conns :
       (c # d /\ Disconnects(c) /\ Active(d)) =>
         LET u == sockUserId[d] IN
         /\ (u \in DOMAIN connectedUsers /\ connectedUsers[u].socketId = d)
              => (u \in DOMAIN connectedUsers'
                    /\ connectedUsers'[u] = connectedUsers[u])
         /\ RoomsOf(rooms', d) = RoomsOf(rooms, d)
         /\ \A r \in DOMAIN roomSubscriptions :
              (u \in roomSubscriptions[r] /\ d \in rooms[r])
                => (r \in DOMAIN roomSubscriptions'
                      /\ u \in roomSubscriptions'[r])]_vars

\* C7: the registry holds exactly one entry per live admitted connection, and
\* the total and the list reported from it account for all of them.
C7_OneRegistryEntryPerConnection ==
  LET live == {c \in Conns : Active(c)} IN
  /\ Cardinality(DOMAIN connectedUsers) = Cardinality(live)
  /\ GetConnectedUsersInfo.total_connected = Cardinality(live)
  /\ Cardinality(GetConnectedUsersInfo.users) = Cardinality(live)

\* C8: an event sent to a subject (notification, booking_updated or
\* payment_updated) is delivered to every live connection of that subject.
C8_SubjectEventReachesEveryConnection ==
  [][\A u \in Users : \A c \in Conns :
       (Active(c) /\ sockUserId[c] = u) =>
         /\ (\E n \in Notifications : BroadcastNotification(u, n))
              => Named(NewEvents(c), "notification") # {}
         /\ (\E b \in BookingIds, d \in BookingUpdateData :
               BroadcastBookingUpdate(u, b, d))
              => Named(NewEvents(c), "booking_updated") # {}
         /\ (\E p \in PaymentIds, d \in PaymentUpdateData :
               BroadcastPaymentUpdate(u, p, d))
              => Named(NewEvents(c), "payment_updated") # {}]_vars

C10_ParkingUpdateFanOut ==
  [][\A l \in Lots, d \in ParkingUpdateData :
       BroadcastParkingUpdate(l, d) =>
         \A c \in Conns :
           LET inLot == c \in rooms[LotRoom(l)]
               inAll == c \in rooms[ParkingUpdatesRoom]
               new == NewEvents(c)
           IN /\ IsPrefix(inbox[c], inbox'[c])
              /\ \A i \in 1..Len(new) :
                   /\ new[i].event = "parking_updated"
                   /\ new[i].data.parking_lot_id = l
                   /\ new[i].data.available_spaces = d.available_spaces
              /\ (inLot \/ inAll) => Len(new) >= 1
              /\ (~inLot /\ ~inAll) => Len(new) = 0
              /\ (inLot /\ ~inAll) => Len(new) = 1]_vars

C10_Witness ==
  \E c, d \in Conns :
    /\ c \in rooms[LotRoom("L1")] /\ c \notin rooms[ParkingUpdatesRoom]
    /\ Cardinality(Named(inbox[c], "parking_updated")) = 1
    /\ \A i \in Named(inbox[c], "parking_updated") :
         /\ inbox[c][i].data.parking_lot_id = "L1"
         /\ inbox[c][i].data.available_spaces = 17
    /\ Active(d) /\ RoomsOf(rooms, d) = {UserRoom(sockUserId[d])}
    /\ Named(inbox[d], "parking_updated") = {}

\* C11: broadcastBookingUpdate(S, booking, data) delivers a booking_updated
\* event to every member of S's subject room and to every member of the admin
\* room, and to no connection outside those two rooms.
C11_BookingUpdateFanOut ==
  [][\A u \in Users, b \in BookingIds, d \in BookingUpdateData :
       BroadcastBookingUpdate(u, b, d) =>
         \A c \in Conns :
           LET inSubject == c \in rooms[UserRoom(u)]
               inAdmin == c \in rooms[AdminRoom]
               new == NewEvents(c)
           IN /\ IsPrefix(inbox[c], inbox'[c])
              /\ \A i \in 1..Len(new) :
                   /\ new[i].event = "booking_updated"
                   /\ new[i].data.booking_id = b
              /\ inSubject =>
                   \E i \in 1..Len(new) : "user_id" \notin DOMAIN new[i].data
              /\ inAdmin =>
                   \E i \in 1..Len(new) :
                     /\ "user_id" \in DOMAIN new[i].data
                     /\ new[i].data.user_id = u
              /\ (~inSubject /\ ~inAdmin) => Len(new) = 0]_vars

C11_Witness ==
  \E c, d \in Conns :
    /\ c # d /\ Active(c) /\ Active(d)
    /\ RoomsOf(rooms, c) = {UserRoom("u1")}
    /\ \E i \in Named(inbox[c], "booking_updated") :
         "user_id" \notin DOMAIN inbox[c][i].data
    /\ RoomsOf(rooms, d) = {UserRoom("u2"), AdminRoom}
    /\ Cardinality(Named(inbox[d], "booking_updated")) = 1
    /\ \E i \in Named(inbox[d], "booking_updated") :
         /\ "user_id" \in DOMAIN inbox[d][i].data
         /\ inbox[d][i].data.user_id = "u1"

\* C12: broadcastPaymentUpdate(S, payment, data) emits payment_updated to
\* S's subject room only: every member of that room gets exactly one, and
\* a connection outside it, an admin connection included, gets none.
C12_PaymentUpdateSubjectRoomOnly ==
  [][\A u \in Users, p \in PaymentIds, d \in PaymentUpdateData :
       BroadcastPaymentUpdate(u, p, d) =>
         \A c \in Conns :
           LET new == NewEvents(c)
           IN /\ IsPrefix(inbox[c], inbox'[c])
              /\ c \in rooms[UserRoom(u)] =>
                   /\ Len(new) = 1
                   /\ new[1].event = "payment_updated"
                   /\ new[1].data.payment_id = p
              /\ c \notin rooms[UserRoom(u)] => Len(new) = 0]_vars

C12_Witness ==
  \E c, d \in Conns :
    /\ Active(c) /\ sockUserId[c] = "u1" /\ c \in rooms[UserRoom("u1")]
    /\ Named(inbox[c], "payment_updated") # {}
    /\ Active(d) /\ sockUserRole[d] = "admin" /\ d \in rooms[AdminRoom]
    /\ d \notin rooms[UserRoom("u1")]
    /\ inbox[d] = <<inbox[d][1]>>

\* C13: broadcastSystemAnnouncement delivers exactly one system_announcement
\* event to every connected admitted connection, whatever rooms it has
\* joined or left, and nothing to any other socket.
C13_AnnouncementReachesEveryConnection ==
  [][\A a \in Announcements :
       (io /\ BroadcastSystemAnnouncement(a.message, a.type)) =>
         \A c \in Conns :
           /\ Active(c) =>
                /\ IsPrefix(inbox[c], inbox'[c])
                /\ NewEvents(c) =
                     <<Event("system_announcement",
                             [message |-> a.message, type |-> a.type,
                              timestamp |-> ISOString])>>
           /\ ~Active(c) => inbox'[c] = inbox[c]]_vars

C13_Witness ==
  \E c, d \in Conns :
    /\ c # d /\ Active(c) /\ Active(d)
    /\ RoomsOf(rooms, c) = {}
    /\ sockUserRole[d] = "admin"
    /\ Cardinality(Named(inbox[c], "system_announcement")) = 1
    /\ Cardinality(Named(inbox[d], "system_announcement")) = 1

BroadcastKinds ==
  {"parking_updated", "booking_updated", "payment_updated", "notification",
   "system_announcement"}

\* the state the server holds (everything but the streams already sent)
serverState == <<io, usersTable, status, sockUserId, sockUserRole, rooms,
                 connectedUsers, roomSubscriptions, pending>>

\* socket c was a member of the room the broadcast event e is emitted to
WasInTargetRoom(c, e) ==
  CASE e.event = "parking_updated" ->
         \/ c \in rooms[LotRoom(e.data.parking_lot_id)]
         \/ c \in rooms[ParkingUpdatesRoom]
    [] e.event = "booking_updated" ->
         IF "user_id" \in DOMAIN e.data THEN c \in rooms[AdminRoom]
         ELSE \E u \in Users : c \in rooms[UserRoom(u)]
    [] e.event \in {"payment_updated", "notification"} ->
         \E u \in Users : c \in rooms[UserRoom(u)]
    [] OTHER -> TRUE

BadToken(t) ==
  \/ t = Missing
  \/ ~JwtVerify(t).ok
  \/ JwtVerify(t).id \notin DOMAIN usersTable

\* C15: a connection attempt with a missing token, an invalid token, or a
\* valid token whose subject is not in the users table is rejected before
\* admission: it never gets a registry entry, never joins a room and never
\* receives any event.
C15_BadTokenNeverAdmitted ==
  [][\A c \in Conns :
       /\ \A t \in Tokens :
            (BadToken(t) /\ Authenticate(c, t)) => status'[c] = "rejected"
       /\ status[c] = "rejected" => status'[c] = "rejected"
       /\ status'[c] = "rejected" =>
            /\ inbox'[c] = << >>
            /\ RoomsOf(rooms', c) = {}
            /\ \A u \in DOMAIN connectedUsers' :
                 connectedUsers'[u].socketId # c
            /\ \A i \in 1..Len(pending') : pending'[i].socket # c]_vars

C15_Witness ==
  \E c, d \in Conns :
    /\ status[c] = "rejected" /\ inbox[c] = << >>
    /\ Active(d)
    /\ Named(inbox[d], "system_announcement") # {}

\* C16: the role used for the admin auto-join, the admin-typed subscribe
\* check and the get_live_stats check is the one read from the users table
\* when the connection authenticated; a role change in the table while the
\* connection is open changes none of its memberships or permissions.
C16_RoleFixedAtConnectTime ==
  [][\A c \in Conns :
       /\ sockUserRole'[c] # sockUserRole[c] =>
            /\ status[c] = "none" /\ status'[c] = "authenticated"
            /\ sockUserRole'[c] = usersTable[sockUserId'[c]]
       /\ (usersTable' # usersTable /\ status[c] \in {"authenticated", "active"})
            => UNCHANGED <<sockUserRole, rooms, connectedUsers,
                           roomSubscriptions, inbox, pending, status>>
       /\ Admitted(c) =>
            (c \in rooms'[AdminRoom] <=> sockUserRole[c] = "admin")
       /\ \A room \in AllRooms :
            HandleRoomSubscription(c, room, "admin") =>
              /\ Len(NewEvents(c)) = 1
              /\ NewEvents(c)[1].event =
                   (IF sockUserRole[c] = "admin" THEN "subscribed" ELSE "error")
              /\ sockUserRole[c] # "admin" => rooms' = rooms
       /\ GetLiveStats(c) =>
            (Len(pending') > Len(pending) <=> sockUserRole[c] = "admin")]_vars

C16_Witness ==
  \E c \in Conns :
    /\ Active(c)
    /\ usersTable[sockUserId[c]] = "admin" /\ sockUserRole[c] = "user"
    /\ c \notin rooms[AdminRoom]
    /\ Len(inbox[c]) = 2
    /\ inbox[c][2] = Event("error", [message |-> "Admin privileges required"])

\* the client messages of socket c that are in error
ErroneousMessage(c) ==
  \/ \E room \in AllRooms \cup {Missing}, type \in SubscribeTypes :
       /\ \/ room = Missing
          \/ type = Missing
          \/ type = "admin" /\ sockUserRole[c] # "admin"
       /\ HandleRoomSubscription(c, room, type)
  \/ HandleRoomSubscriptionNoData(c)
  \/ HandleRoomUnsubscription(c, Missing)
  \/ HandleRoomUnsubscriptionNoData(c)

\* C17: a client message in error on an active connection (a subscribe
\* without room or type, an unsubscribe without room, an admin-typed
\* subscribe from a non-admin) sends exactly one error event to the
\* requesting connection and to no other, leaves room memberships, tracked
\* subscriptions and the registry unchanged, and leaves the connection active.
C17_ErrorIsScopedAndNotFatal ==
  [][\A c \in Conns :
       ErroneousMessage(c) =>
         /\ Len(NewEvents(c)) = 1
         /\ NewEvents(c)[1].event = "error"
         /\ IsPrefix(inbox[c], inbox'[c])
         /\ \A d \in Conns \ {c} : inbox'[d] = inbox[d]
         /\ UNCHANGED <<rooms, roomSubscriptions, connectedUsers, status>>
         /\ status'[c] = "active"]_vars

ReplyKinds == {"parking_availability", "booking_status", "live_stats"}

\* the request whose reply is the event named name
RequestOf(name) ==
  CASE name = "parking_availability" -> "get_parking_availability"
    [] name = "booking_status" -> "get_booking_status"
    [] name = "live_stats" -> "get_live_stats"

\* a step in which a data-request handler runs for socket c: the request
\* arrives, or the store answers one of c's pending requests
DataRequestStep(c) ==
  \/ \E l \in Lots \cup {Missing, NoData} : GetParkingAvailability(c, l)
  \/ \E b \in BookingIds \cup {NoData} : GetBookingStatus(c, b)
  \/ GetLiveStats(c)
  \/ \E i \in 1..Len(pending), r \in StoreResults :
       /\ pending[i].socket = c
       /\ \/ ParkingAvailabilityReturns(i, r)
          \/ BookingStatusReturns(i, r)
          \/ LiveStatsReturns(i, r)

\* C18: the reply to get_parking_availability, get_booking_status or
\* get_live_stats (the data event or an error) is delivered to the requesting
\* connection only, never to another connection, also when other requests
\* are pending; a data event only ever answers a pending request of the
\* connection that receives it.
C18_ReplyToRequesterOnly ==
  [][\A c \in Conns :
       /\ DataRequestStep(c) =>
            /\ \A d \in Conns \ {c} : inbox'[d] = inbox[d]
            /\ IsPrefix(inbox[c], inbox'[c])
            /\ Len(NewEvents(c)) <= 1
            /\ \A k \in 1..Len(NewEvents(c)) :
                 NewEvents(c)[k].event \in ReplyKinds \cup {"error"}
       /\ \A k \in 1..Len(NewEvents(c)) :
            LET ev == NewEvents(c)[k] IN
            ev.event \in ReplyKinds =>
              /\ \E i \in 1..Len(pending) :
                   /\ pending[i].socket = c
                   /\ pending[i].kind = RequestOf(ev.event)
                   /\ pending' = RemoveAt(pending, i)
              /\ ev.event = "booking_status" =>
                   ev.data.booking.user_id = sockUserId[c]]_vars

C18_Witness ==
  \E c, d \in Conns :
    /\ c # d /\ Active(c) /\ Active(d)
    /\ sockUserId[c] = sockUserId[d]
    /\ d \in rooms[UserRoom(sockUserId[c])]
    /\ Named(inbox[c], "parking_availability") # {}
    /\ Len(inbox[d]) = 1
    /\ \E i \in 1..Len(pending) : pending[i].socket = d

\* C19: a live_stats event is delivered only to connections whose role is
\* admin; a get_live_stats message from a non-admin connection starts no
\* statistics query and yields no event.
C19_LiveStatsAdminOnly ==
  [][\A c \in Conns :
       /\ (\E k \in 1..Len(NewEvents(c)) : NewEvents(c)[k].event = "live_stats")
            => sockUserRole[c] = "admin"
       /\ (GetLiveStats(c) /\ sockUserRole[c] # "admin") =>
            /\ pending' = pending
            /\ inbox' = inbox
       /\ \A i \in 1..Len(pending') :
            pending'[i].kind = "get_live_stats" =>
              sockUserRole[pending'[i].socket] = "admin"]_vars

C19_Witness ==
  \E c, d \in Conns :
    /\ Active(c) /\ sockUserRole[c] = "admin"
    /\ Named(inbox[c], "live_stats") # {}
    /\ Active(d) /\ sockUserRole[d] = "user"
    /\ Len(inbox[d]) = 1
    /\ nOps = MaxOps

NoEmptyTrackedSet ==
  \A r \in DOMAIN roomSubscriptions : roomSubscriptions[r] # {}

\* C20: roomSubscriptions never holds a room whose subscriber set is empty:
\* the entry of a room is removed when its last tracked subscriber
\* unsubscribes or disconnects, and is created again by the next
\* subscription to that room.
C20_NoEmptyTrackedRoom ==
  /\ []NoEmptyTrackedSet
  /\ [][\A c \in Conns :
          /\ \A r \in AllRooms :
               /\ HandleRoomUnsubscription(c, r) =>
                    (r \in DOMAIN roomSubscriptions' <=>
                       (r \in DOMAIN roomSubscriptions
                          /\ roomSubscriptions[r] \ {sockUserId[c]} # {}))
               /\ \A t \in SubscribeTypes \ {Missing} :
                    (HandleRoomSubscription(c, r, t)
                       /\ ~(t = "admin" /\ sockUserRole[c] # "admin")) =>
                      /\ r \in DOMAIN roomSubscriptions'
                      /\ sockUserId[c] \in roomSubscriptions'[r]
          /\ Disconnects(c) =>
               \A r \in DOMAIN roomSubscriptions :
                 (r \in DOMAIN roomSubscriptions' <=>
                    roomSubscriptions[r] \ {sockUserId[c]} # {})]_vars

C20_Witness ==
  \E c \in Conns : \E r \in AllRooms :
    /\ Active(c)
    /\ Len(inbox[c]) = 3
    /\ inbox[c][2].event = "subscribed" /\ inbox[c][2].data.room = r
    /\ inbox[c][3].event = "unsubscribed" /\ inbox[c][3].data.room = r
    /\ r \notin DOMAIN roomSubscriptions
    /\ NoEmptyTrackedSet

C22_EveryEventHasTimestamp ==
  \A c \in Conns : \A k \in 1..Len(inbox[c]) :
    "timestamp" \in DOMAIN inbox[c][k].data

\* the requests of operation op that are over with response code
Answered(op, code) ==
  {r \in Reqs : /\ requests[r].op = op
                /\ requests[r].pc = "done"
                /\ requests[r].response = code}

\* C23: a failure raised while broadcasting never reaches the operation that
\* triggered it: the request gets the response of the successful case and
\* the store holds the same data (every answered announcement is stored).
C23_BroadcastFailureNeverPropagates ==
  /\ \A r \in Reqs :
       (requests[r].pc = "done" /\ requests[r].wsFailed) =>
         requests[r].response \in {200, 201}
  /\ Len(system_announcements) =
       Cardinality({r \in Reqs : /\ requests[r].op = "sendSystemAnnouncement"
                                 /\ requests[r].pc = "done"})

\* C24: when only booking creations and cancellations have run and none is
\* in progress, a lot's available_spaces is its initial value minus the
\* bookings created plus the bookings cancelled.
C24_SpacesMatchBookingCount ==
  ((\A r \in Reqs : /\ requests[r].op \in {"none", "createBooking",
                                           "cancelBooking"}
                    /\ requests[r].pc \in {"idle", "done"})
   => \A l \in Lots :
        parking_lots[l].available_spaces =
          TotalSpaces
            - Cardinality({r \in Answered("createBooking", 201) :
                             requests[r].lot = l})
            + Cardinality({r \in Answered("cancelBooking", 200) :
                             requests[r].lot = l}))

Overlap(a, b) == a.start_time < b.end_time /\ b.start_time < a.end_time

\* C25: no two active bookings of the same parking lot overlap in time.
C25_NoDoubleBooking ==
  \A i, j \in 1..Len(bookings) :
    (/\ i < j
     /\ bookings[i].status = "active" /\ bookings[j].status = "active"
     /\ bookings[i].parking_lot_id = bookings[j].parking_lot_id)
    => ~Overlap(bookings[i], bookings[j])

\* C30: through booking creation, cancellation, refund and manual update, in
\* any interleaving, a lot's stored available_spaces stays between 0 and its
\* total_spaces.
C30_AvailableSpacesInRange ==
  \A l \in Lots :
    /\ parking_lots[l].available_spaces >= 0
    /\ parking_lots[l].available_spaces <= parking_lots[l].total_spaces

C30_Witness ==
  \E r \in Reqs :
    /\ requests[r].op \in {"cancelBooking", "processRefund"}
    /\ requests[r].pc = "done" /\ requests[r].response = 200
    /\ requests[r].read = TotalSpaces
    /\ parking_lots[requests[r].lot].available_spaces = TotalSpaces

\* C26: one call of broadcastParkingUpdate or broadcastBookingUpdate
\* delivers at most one event to any single connection, also to a member of
\* both target rooms.
C26_OneEventPerBroadcastCall ==
  [][((\E l \in Lots, d \in ParkingUpdateData : BroadcastParkingUpdate(l, d))
      \/ (\E u \in Users, b \in BookingIds, d \in BookingUpdateData :
            BroadcastBookingUpdate(u, b, d)))
     => \A c \in Conns : Len(inbox'[c]) <= Len(inbox[c]) + 1]_vars

\* C27: the tracked subscription set of a room holds subject U exactly when
\* a live connection of U is a member of the room through a subscribe it
\* has not undone. Stated for the rooms a connection of U can only be in
\* through a subscribe (every room but user:<U> and the admin room, which
\* are also joined at admission).
C27_TrackingMatchesMembership ==
  \A u \in Users : \A r \in AllRooms \ {UserRoom(u), AdminRoom} :
    (r \in DOMAIN roomSubscriptions /\ u \in roomSubscriptions[r])
    <=> \E c \in Conns :
          Active(c) /\ sockUserId[c] = u /\ c \in rooms[r]

\* C28: the registry has an entry for subject S exactly when S has a live
\* admitted connection; total_connected counts these subjects and
\* admins_online is never above it.
C28_RegistryMatchesLiveSubjects ==
  LET live == {u \in Users : \E c \in Conns : Active(c) /\ sockUserId[c] = u}
      info == GetConnectedUsersInfo
  IN /\ DOMAIN connectedUsers = live
     /\ info.total_connected = Cardinality(live)
     /\ Cardinality({x \in info.users : x.role = "admin"})
          <= info.total_connected

\* a client message of socket c is handled
MessageStep(c) ==
  \/ \E room \in AllRooms \cup {Missing}, type \in SubscribeTypes :
       HandleRoomSubscription(c, room, type)
  \/ HandleRoomSubscriptionNoData(c)
  \/ \E room \in AllRooms \cup {Missing} : HandleRoomUnsubscription(c, room)
  \/ HandleRoomUnsubscriptionNoData(c)
  \/ \E l \in Lots \cup {Missing, NoData} : GetParkingAvailability(c, l)
  \/ \E b \in BookingIds \cup {NoData} : GetBookingStatus(c, b)
  \/ GetLiveStats(c)

HasPending(c) == \E i \in 1..Len(pending) : pending[i].socket = c

\* C29: every subscribe, unsubscribe, get_parking_availability,
\* get_booking_status and get_live_stats message of an active connection is
\* answered by exactly one event to that connection: at once, or by one
\* pending store call that, if the connection stays open, is answered later.
C29_EveryMessageAnswered ==
  /\ [][\A c \in Conns :
          MessageStep(c) =>
            \/ /\ Len(inbox'[c]) = Len(inbox[c]) + 1
               /\ pending' = pending
            \/ /\ inbox'[c] = inbox[c]
               /\ Len(pending') = Len(pending) + 1
               /\ pending'[Len(pending')].socket = c]_vars
  /\ \A c \in Conns : HasPending(c) ~> (~HasPending(c) \/ ~Active(c))

====
